---- MODULE Spec2Model ----
(***************************************************************************)
(* A model of windgpx: CyclistWindAnalyzer (track ingestion, kinematics,   *)
(* wind sampling, interpolation) and the page script that drives the one   *)
(* shared analyzer from DOM events.                                        *)
(*                                                                         *)
(* Units.  Times are minutes since the epoch (the source uses ms).         *)
(* Latitudes and longitudes are microdegrees.  Distances are decimetres.   *)
(* Speeds (ground and wind) are metres per hour, i.e. km/h * 1000.         *)
(* Angles are whole degrees.  A JavaScript null / undefined / NaN is the   *)
(* empty sequence <<>> and a present value v is <<v>>.                     *)
(***************************************************************************)
EXTENDS Integers, Sequences, FiniteSets, TLC

\* ------------------------------------------------------------------ bounds

\* Longest list of point elements in an input file.
MaxPoints == 2

\* Longest track handed to the kinematics pass on its own.
MaxTrack == 3

\* Longest wind-sample series handed to the interpolation on its own.
MaxWind == 3

\* handleFileSelection invocations that may be alive at the same time.
MaxRuns == 2

\* Grid steps of one sampling run that are followed; a longer run is left
\* at its pending request.
MaxSteps == 4

\* ------------------------------------------------------- program constants

MAX_REALISTIC_SPEED == 100
MIN_MOVEMENT_THRESHOLD == 1
\* 30 * 60 * 1000 ms, in minutes
WIND_FETCH_INTERVAL == 30
API_DELAY == 200
DEFAULT_WIND_SPEED == 10
DEFAULT_WIND_DIRECTION == 180
THROTTLE_WAIT == 8
FALLBACK_SPEED == 20
MIN_YEAR == 2000

\* ------------------------------------------------------------ JS values

Null == <<>>
Some(v) == <<v>>
IsNull(x) == x = Null
Val(x) == x[1]

\* ToNumber of a Date-or-null operand of "-" and "<=": null is 0.
TimeNum(t) == IF IsNull(t) THEN 0 ELSE Val(t)

\* Date.prototype.getFullYear, with mean years of 525960 minutes.
MinutesPerYear == 525960
getFullYear(t) == 1970 + (t \div MinutesPerYear)

\* The % of JavaScript: the result takes the sign of the dividend.
JsRem(a, n) == IF a >= 0 THEN a % n ELSE 0 - ((0 - a) % n)

Abs(x) == IF x < 0 THEN 0 - x ELSE x

\* Math.ceil(a / b) for b > 0.
Ceil(a, b) == IF a >= 0 THEN (a + b - 1) \div b ELSE 0 - ((0 - a) \div b)

\* ------------------------------------------------------------ input files

\* Instants used by the inputs: one before 1970, and a ride on 2020-06-01
\* from 10:00 UTC.
TPre1970 == 0 - 60
T0 == ((50 * 365 + 12 + 152) * 24 + 10) * 60

\* The text of a <time> element: how it parses, and the instant it names.
\*   "missing"   no <time> element, or an empty one
\*   "iso"       new Date(text) succeeds
\*   "isoNoZone" new Date(text) fails; has a T and no Z or +
\*   "spaced"    new Date(text) fails; YYYY-MM-DD HH:MM:SS
\*   "garbage"   no parser accepts it
TimeText(kind, t) == [kind |-> kind, t |-> t]

\* The text of an <ele> element.
EleMissing == [kind |-> "missing", v |-> 0]
EleGarbage == [kind |-> "garbage", v |-> 0]
EleNum(v) == [kind |-> "number", v |-> v]

\* A point element: parseFloat of its lat and lon attributes (<<>> is NaN),
\* and its <ele> and <time> children.
RawPoint(lat, lon, ele, time) == [lat |-> lat, lon |-> lon, ele |-> ele, time |-> time]

RawPoints ==
    { RawPoint(Some(45000000), Some(10000000), EleNum(100), TimeText("iso", T0)),
      RawPoint(Some(45010000), Some(10000000), EleMissing, TimeText("iso", T0 + 30)),
      RawPoint(Some(45020000), Some(10000000), EleGarbage, TimeText("isoNoZone", T0 + 75)),
      RawPoint(Some(45000000), Some(10000000), EleNum(100), TimeText("missing", 0)),
      RawPoint(Some(0), Some(10000000), EleNum(5), TimeText("iso", T0 + 45)),
      RawPoint(Some(91000000), Some(10000000), EleNum(5), TimeText("iso", T0 + 10)),
      RawPoint(Null, Some(181000000), EleNum(5), TimeText("iso", T0 + 20)),
      RawPoint(Some(90000000), Some(0 - 180000000), EleMissing, TimeText("garbage", 0)),
      RawPoint(Some(45010000), Some(10000000), EleMissing, TimeText("spaced", TPre1970)) }

SeqsUpTo(S, n) == UNION { [1..k -> S] : k \in 0..n }

\* A File: whether its name ends in .gpx, whether DOMParser accepts its
\* text, and the elements of the first of trkpt, rtept, wpt that has any.
GpxFile(points) == [gpx |-> TRUE, wellFormed |-> TRUE, points |-> points]
NotGpxFile == [gpx |-> FALSE, wellFormed |-> TRUE, points |-> <<>>]
MalformedFile == [gpx |-> TRUE, wellFormed |-> FALSE, points |-> <<>>]

Files == { NotGpxFile, MalformedFile } \cup { GpxFile(ps) : ps \in SeqsUpTo(RawPoints, MaxPoints) }

\* ------------------------------------------------------- track ingestion

\* isValidCoordinate(lat, lon), as a truth value: the && chain is falsy for
\* a NaN operand and for an operand equal to 0.
isValidCoordinate(lat, lon) ==
    /\ ~IsNull(lat) /\ Val(lat) # 0
    /\ ~IsNull(lon) /\ Val(lon) # 0
    /\ Val(lat) >= 0 - 90000000 /\ Val(lat) <= 90000000
    /\ Val(lon) >= 0 - 180000000 /\ Val(lon) <= 180000000

extractElevation(point) ==
    IF point.ele.kind = "number" THEN point.ele.v ELSE 0

\* new Date(timeString): the instant, or <<>> for an Invalid Date.
PrimaryParse(text) == IF text.kind = "iso" THEN Some(text.t) ELSE Null

parseAlternativeTimeFormats(text) ==
    IF text.kind = "isoNoZone" THEN Some(text.t)
    ELSE IF text.kind = "spaced" THEN Some(text.t)
    ELSE Null

extractTimestamp(point) ==
    IF point.time.kind = "missing" THEN Null
    ELSE LET time == PrimaryParse(point.time)
         IN IF IsNull(time) THEN parseAlternativeTimeFormats(point.time) ELSE time

\* A track point as extractGPXPoints pushes it; the kinematics and wind
\* fields are undefined until a later pass assigns them.
NewPoint(lat, lon, elevation, time) ==
    [lat |-> lat, lon |-> lon, elevation |-> elevation, time |-> time,
     speed_kmh |-> Null, bearing |-> Null, distance_km |-> Null,
     wind_speed |-> Null, wind_direction |-> Null, wind_faced |-> Null]

RECURSIVE extractGPXPoints(_)
extractGPXPoints(trackPoints) ==
    IF trackPoints = <<>> THEN <<>>
    ELSE LET n == Len(trackPoints)
             point == trackPoints[n]
             points == extractGPXPoints(SubSeq(trackPoints, 1, n - 1))
         IN IF ~isValidCoordinate(point.lat, point.lon) THEN points
            ELSE Append(points, NewPoint(Val(point.lat), Val(point.lon),
                                         extractElevation(point), extractTimestamp(point)))

HasValidTime(p) == ~IsNull(p.time) /\ getFullYear(Val(p.time)) > MIN_YEAR

validateTimestamps_NoCheck(points) == TRUE

validateTimestamps_AnyYear(points) == \E i \in 1..Len(points) : ~IsNull(points[i].time)

\* validateTimestamps(points) returns normally.
validateTimestamps(points) == \E i \in 1..Len(points) : HasValidTime(points[i])

\* The comparator of the sort, (a, b) => a.time - b.time.
CompareTime(a, b) == TimeNum(a.time) - TimeNum(b.time)

\* Insert p behind every element that does not compare greater than it.
RECURSIVE InsertSorted(_, _)
InsertSorted(sorted, p) ==
    IF sorted = <<>> THEN <<p>>
    ELSE LET n == Len(sorted)
         IN IF CompareTime(sorted[n], p) <= 0 THEN Append(sorted, p)
            ELSE Append(InsertSorted(SubSeq(sorted, 1, n - 1), p), sorted[n])

SortByTime_Unsorted(points) == points

\* points.sort(comparator): Array.prototype.sort is stable.
RECURSIVE SortByTime(_)
SortByTime(points) ==
    IF points = <<>> THEN <<>>
    ELSE LET n == Len(points)
         IN InsertSorted(SortByTime(SubSeq(points, 1, n - 1)), points[n])

\* ----------------------------------------------------------------- geodesy

\* For every pair of coordinates the inputs can hold:
\* <<lat1, lon1, lat2, lon2, d, a>> where d is haversineDistance in
\* decimetres and a is toDegrees(Math.atan2(y, x)) of calculateBearing,
\* both rounded to the nearest integer.
GeodesyTable ==
    { <<45000000, 10000000, 45000000, 10000000, 0, 0>>,
      <<45000000, 10000000, 45010000, 10000000, 11119, 0>>,
      <<45000000, 10000000, 45010005, 10000000, 11125, 0>>,
      <<45000000, 10000000, 45020000, 10000000, 22239, 0>>,
      <<45000000, 10000000, 45010000, 10010000, 13618, 35>>,
      <<45000000, 10000000, 45010000, 9990000, 13618, -35>>,
      <<45000000, 10000000, 90000000, -180000000, 50037717, 0>>,
      <<45010000, 10000000, 45000000, 10000000, 11119, 180>>,
      <<45010000, 10000000, 45010000, 10000000, 0, 0>>,
      <<45010000, 10000000, 45010005, 10000000, 6, 0>>,
      <<45010000, 10000000, 45020000, 10000000, 11119, 0>>,
      <<45010000, 10000000, 45010000, 10010000, 7861, 90>>,
      <<45010000, 10000000, 45010000, 9990000, 7861, -90>>,
      <<45010000, 10000000, 90000000, -180000000, 50026597, 0>>,
      <<45010005, 10000000, 45000000, 10000000, 11125, 180>>,
      <<45010005, 10000000, 45010000, 10000000, 6, 180>>,
      <<45010005, 10000000, 45010005, 10000000, 0, 0>>,
      <<45010005, 10000000, 45020000, 10000000, 11114, 0>>,
      <<45010005, 10000000, 45010000, 10010000, 7861, 90>>,
      <<45010005, 10000000, 45010000, 9990000, 7861, -90>>,
      <<45010005, 10000000, 90000000, -180000000, 50026592, 0>>,
      <<45020000, 10000000, 45000000, 10000000, 22239, 180>>,
      <<45020000, 10000000, 45010000, 10000000, 11119, 180>>,
      <<45020000, 10000000, 45010005, 10000000, 11114, 180>>,
      <<45020000, 10000000, 45020000, 10000000, 0, 0>>,
      <<45020000, 10000000, 45010000, 10010000, 13617, 145>>,
      <<45020000, 10000000, 45010000, 9990000, 13617, -145>>,
      <<45020000, 10000000, 90000000, -180000000, 50015478, 0>>,
      <<45010000, 10010000, 45000000, 10000000, 13618, -145>>,
      <<45010000, 10010000, 45010000, 10000000, 7861, -90>>,
      <<45010000, 10010000, 45010005, 10000000, 7861, -90>>,
      <<45010000, 10010000, 45020000, 10000000, 13617, -35>>,
      <<45010000, 10010000, 45010000, 10010000, 0, 0>>,
      <<45010000, 10010000, 45010000, 9990000, 15723, -90>>,
      <<45010000, 10010000, 90000000, -180000000, 50026597, 0>>,
      <<45010000, 9990000, 45000000, 10000000, 13618, 145>>,
      <<45010000, 9990000, 45010000, 10000000, 7861, 90>>,
      <<45010000, 9990000, 45010005, 10000000, 7861, 90>>,
      <<45010000, 9990000, 45020000, 10000000, 13617, 35>>,
      <<45010000, 9990000, 45010000, 10010000, 15723, 90>>,
      <<45010000, 9990000, 45010000, 9990000, 0, 0>>,
      <<45010000, 9990000, 90000000, -180000000, 50026597, 0>>,
      <<90000000, -180000000, 45000000, 10000000, 50037717, -10>>,
      <<90000000, -180000000, 45010000, 10000000, 50026597, -10>>,
      <<90000000, -180000000, 45010005, 10000000, 50026592, -10>>,
      <<90000000, -180000000, 45020000, 10000000, 50015478, -10>>,
      <<90000000, -180000000, 45010000, 10010000, 50026597, -10>>,
      <<90000000, -180000000, 45010000, 9990000, 50026597, -10>>,
      <<90000000, -180000000, 90000000, -180000000, 0, 0>> }

GeodesyEntry(lat1, lon1, lat2, lon2) ==
    CHOOSE e \in GeodesyTable : e[1] = lat1 /\ e[2] = lon1 /\ e[3] = lat2 /\ e[4] = lon2

haversineDistance(lat1, lon1, lat2, lon2) == GeodesyEntry(lat1, lon1, lat2, lon2)[5]

NormalizeBearing_NoWrap(azimuth) == azimuth

\* (bearing + 360) % 360 of the azimuth.
NormalizeBearing(azimuth) == JsRem(azimuth + 360, 360)

calculateBearing(lat1, lon1, lat2, lon2) ==
    NormalizeBearing(GeodesyEntry(lat1, lon1, lat2, lon2)[6])

\* -------------------------------------------------------------- kinematics

calculateSpeed_NoCap(distance, timeDiff, prevSpeedArg) ==
    LET prevSpeed == IF IsNull(prevSpeedArg) THEN 0 ELSE Val(prevSpeedArg)
    IN IF timeDiff <= 0 THEN prevSpeed
       ELSE IF distance <= 0 THEN 0
       ELSE (distance * 6) \div timeDiff

calculateSpeed_ZeroOnAnomaly(distance, timeDiff, prevSpeedArg) ==
    LET prevSpeed == IF IsNull(prevSpeedArg) THEN 0 ELSE Val(prevSpeedArg)
    IN IF timeDiff <= 0 \/ distance <= 0 THEN 0
       ELSE LET whole == (distance * 6) \div timeDiff
                rest == (distance * 6) % timeDiff
                tooFast == \/ whole > MAX_REALISTIC_SPEED * 1000
                           \/ whole = MAX_REALISTIC_SPEED * 1000 /\ rest > 0
            IN IF tooFast
               THEN (IF prevSpeed # 0 THEN prevSpeed ELSE FALLBACK_SPEED * 1000)
               ELSE whole

\* calculateSpeed(distance, timeDiff, prevSpeed = 0): distance in
\* decimetres, timeDiff in minutes, speeds in m/h.  A speed of s km/h is
\* distance * 6 / timeDiff m/h.
calculateSpeed(distance, timeDiff, prevSpeedArg) ==
    LET prevSpeed == IF IsNull(prevSpeedArg) THEN 0 ELSE Val(prevSpeedArg)
    IN IF timeDiff <= 0 THEN prevSpeed
       ELSE IF distance <= 0 THEN 0
       ELSE LET whole == (distance * 6) \div timeDiff
                rest == (distance * 6) % timeDiff
                tooFast == \/ whole > MAX_REALISTIC_SPEED * 1000
                           \/ whole = MAX_REALISTIC_SPEED * 1000 /\ rest > 0
            IN IF tooFast
               THEN (IF prevSpeed # 0 THEN prevSpeed ELSE FALLBACK_SPEED * 1000)
               ELSE whole

calculatePointBearing_NoThreshold(prev, curr, distance) ==
    calculateBearing(prev.lat, prev.lon, curr.lat, curr.lon)

calculatePointBearing(prev, curr, distance) ==
    IF distance > MIN_MOVEMENT_THRESHOLD * 10
    THEN calculateBearing(prev.lat, prev.lon, curr.lat, curr.lon)
    ELSE IF IsNull(prev.bearing) THEN 0 ELSE Val(prev.bearing)

calculatePointMetrics_Accumulates(prev, curr, cumulativeDistance) ==
    LET distance == haversineDistance(prev.lat, prev.lon, curr.lat, curr.lon)
        timeDiff == TimeNum(curr.time) - TimeNum(prev.time)
        base == IF IsNull(curr.distance_km) THEN 0 ELSE Val(curr.distance_km)
    IN [curr EXCEPT !.distance_km = Some(base + cumulativeDistance + distance),
                    !.speed_kmh = Some(calculateSpeed(distance, timeDiff, prev.speed_kmh)),
                    !.bearing = Some(calculatePointBearing(prev, curr, distance))]

calculatePointMetrics_NotCumulative(prev, curr, cumulativeDistance) ==
    LET distance == haversineDistance(prev.lat, prev.lon, curr.lat, curr.lon)
        timeDiff == TimeNum(curr.time) - TimeNum(prev.time)
    IN [curr EXCEPT !.distance_km = Some(distance),
                    !.speed_kmh = Some(calculateSpeed(distance, timeDiff, prev.speed_kmh)),
                    !.bearing = Some(calculatePointBearing(prev, curr, distance))]

\* calculatePointMetrics(prev, curr, index, cumulativeDistance): curr as
\* the call leaves it.
calculatePointMetrics(prev, curr, cumulativeDistance) ==
    LET distance == haversineDistance(prev.lat, prev.lon, curr.lat, curr.lon)
        timeDiff == TimeNum(curr.time) - TimeNum(prev.time)
    IN [curr EXCEPT !.distance_km = Some(cumulativeDistance + distance),
                    !.speed_kmh = Some(calculateSpeed(distance, timeDiff, prev.speed_kmh)),
                    !.bearing = Some(calculatePointBearing(prev, curr, distance))]

\* calculateSpeedAndBearing() on a track: the track as the pass leaves it.
\* The pass reads prev after it has updated it.
RECURSIVE calculateSpeedAndBearing(_)
calculateSpeedAndBearing(gpx) ==
    IF gpx = <<>> THEN <<>>
    ELSE IF Len(gpx) = 1
    THEN << [gpx[1] EXCEPT !.speed_kmh = Some(0), !.bearing = Some(0), !.distance_km = Some(0)] >>
    ELSE LET n == Len(gpx)
             done == calculateSpeedAndBearing(SubSeq(gpx, 1, n - 1))
             prev == done[n - 1]
         IN Append(done, calculatePointMetrics(prev, gpx[n], Val(prev.distance_km)))

calculateTotalDistance_Straight(gpx) ==
    IF Len(gpx) <= 1 THEN 0
    ELSE haversineDistance(gpx[1].lat, gpx[1].lon, gpx[Len(gpx)].lat, gpx[Len(gpx)].lon)

\* calculateTotalDistance() on a track: the sum of the distances between
\* consecutive points, in decimetres.
RECURSIVE calculateTotalDistance(_)
calculateTotalDistance(gpx) ==
    IF Len(gpx) <= 1 THEN 0
    ELSE LET n == Len(gpx)
         IN calculateTotalDistance(SubSeq(gpx, 1, n - 1))
            + haversineDistance(gpx[n - 1].lat, gpx[n - 1].lon, gpx[n].lat, gpx[n].lon)

\* ------------------------------------------------------------ wind sampling

\* What one weather request comes to: fetch rejects, the response is not
\* ok, or the response has a JSON body with its hourly series (entries of
\* time, wind_speed_10m in m/s, wind_direction_10m).
NetworkError == [kind |-> "network", hourly |-> <<>>]
HttpError == [kind |-> "http", hourly |-> <<>>]
Body(hourly) == [kind |-> "body", hourly |-> hourly]
Hour(time, speed, direction) == [time |-> time, wind_speed_10m |-> speed, wind_direction_10m |-> direction]

HourlySeries == << Hour(T0, 5, 90), Hour(T0 + 60, 3, 270) >>

Responses == { NetworkError, HttpError, Body(<<>>), Body(HourlySeries) }

\* The request throws: getHistoricalWeatherOpenMeteo or parseWeatherData.
RequestFails(response) == response.kind # "body" \/ response.hourly = <<>>

\* The index parseWeatherData settles on: the first hour at the least
\* distance from timestamp.
ClosestHour(hourly, timestamp) ==
    CHOOSE i \in 1..Len(hourly) :
        /\ \A j \in 1..Len(hourly) : Abs(hourly[i].time - timestamp) <= Abs(hourly[j].time - timestamp)
        /\ \A j \in 1..(i - 1) : Abs(hourly[j].time - timestamp) > Abs(hourly[i].time - timestamp)

\* Math.log(1.5 / 0.1) / Math.log(10 / 0.1), in thousandths.
HeightFactor == 588

\* parseWeatherData(data, timestamp) for a body with hours: m/s to km/h,
\* then from 10 m to 1.5 m above ground.
parseWeatherData(data, timestamp) ==
    LET h == data.hourly[ClosestHour(data.hourly, timestamp)]
    IN [wind_speed |-> (h.wind_speed_10m * 3600 * HeightFactor) \div 1000,
        wind_direction |-> h.wind_direction_10m]

WindSample(time, lat, lon, speed, direction) ==
    [time |-> time, lat |-> lat, lon |-> lon, wind_speed |-> speed, wind_direction |-> direction]

createDefaultWindData_Calm(time, point) == WindSample(time, point.lat, point.lon, 0, 0)

createDefaultWindData(time, point) ==
    WindSample(time, point.lat, point.lon, DEFAULT_WIND_SPEED * 1000, DEFAULT_WIND_DIRECTION)

\* findClosestGPXPoint(targetTime) on a track that is not empty: the first
\* point at the least distance in time.
findClosestGPXPoint(gpx, targetTime) ==
    LET diff(i) == Abs(targetTime - TimeNum(gpx[i].time))
        k == CHOOSE i \in 1..Len(gpx) :
                /\ \A j \in 1..Len(gpx) : diff(i) <= diff(j)
                /\ \A j \in 1..(i - 1) : diff(j) > diff(i)
    IN gpx[k]

\* ------------------------------------------------- interpolation, exposure

findSurroundingWindData_Strict(wind, targetTime) ==
    LET hits == { i \in 1..(Len(wind) - 1) :
                    wind[i].time < targetTime /\ wind[i + 1].time > targetTime }
    IN IF hits = {} THEN [before |-> Null, after |-> Null]
       ELSE LET i == CHOOSE h \in hits : \A g \in hits : h <= g
            IN [before |-> Some(wind[i]), after |-> Some(wind[i + 1])]

findSurroundingWindData(wind, targetTime) ==
    LET hits == { i \in 1..(Len(wind) - 1) :
                    wind[i].time <= targetTime /\ wind[i + 1].time >= targetTime }
    IN IF hits = {} THEN [before |-> Null, after |-> Null]
       ELSE LET i == CHOOSE h \in hits : \A g \in hits : h <= g
            IN [before |-> Some(wind[i]), after |-> Some(wind[i + 1])]

\* before + (after - before) * ratio with ratio = pointTime / totalTime.
Lerp(before, after, pointTime, totalTime) ==
    IF totalTime > 0 THEN before + ((after - before) * pointTime) \div totalTime ELSE before

interpolateBetweenWindPoints(before, after, targetTime) ==
    LET totalTime == after.time - before.time
        pointTime == targetTime - before.time
    IN [wind_speed |-> Lerp(before.wind_speed, after.wind_speed, pointTime, totalTime),
        wind_direction |-> Lerp(before.wind_direction, after.wind_direction, pointTime, totalTime)]

interpolateWindForPoint_DefaultBelowTwo(wind, gpxPoint) ==
    IF Len(wind) <= 1
    THEN [wind_speed |-> DEFAULT_WIND_SPEED * 1000, wind_direction |-> DEFAULT_WIND_DIRECTION]
    ELSE LET s == findSurroundingWindData(wind, TimeNum(gpxPoint.time))
         IN IF ~IsNull(s.before) /\ ~IsNull(s.after)
            THEN interpolateBetweenWindPoints(Val(s.before), Val(s.after), TimeNum(gpxPoint.time))
            ELSE [wind_speed |-> wind[1].wind_speed, wind_direction |-> wind[1].wind_direction]

interpolateWindForPoint(wind, gpxPoint) ==
    IF Len(wind) = 0
    THEN [wind_speed |-> DEFAULT_WIND_SPEED * 1000, wind_direction |-> DEFAULT_WIND_DIRECTION]
    ELSE IF Len(wind) = 1
    THEN [wind_speed |-> wind[1].wind_speed, wind_direction |-> wind[1].wind_direction]
    ELSE LET s == findSurroundingWindData(wind, TimeNum(gpxPoint.time))
         IN IF ~IsNull(s.before) /\ ~IsNull(s.after)
            THEN interpolateBetweenWindPoints(Val(s.before), Val(s.after), TimeNum(gpxPoint.time))
            ELSE [wind_speed |-> wind[1].wind_speed, wind_direction |-> wind[1].wind_direction]

\* Math.cos(toRadians(d)) in thousandths, for d from 0 to 90.
CosTable ==
    << 1000, 1000, 999, 999, 998, 996, 995, 993, 990, 988, 985, 982, 978,
       974, 970, 966, 961, 956, 951, 946, 940, 934, 927, 921, 914, 906,
       899, 891, 883, 875, 866, 857, 848, 839, 829, 819, 809, 799, 788,
       777, 766, 755, 743, 731, 719, 707, 695, 682, 669, 656, 643, 629,
       616, 602, 588, 574, 559, 545, 530, 515, 500, 485, 469, 454, 438,
       423, 407, 391, 375, 358, 342, 326, 309, 292, 276, 259, 242, 225,
       208, 191, 174, 156, 139, 122, 105, 87, 70, 52, 35, 17, 0 >>

Cos(deg) ==
    LET a == Abs(deg) % 360
        b == IF a > 180 THEN 360 - a ELSE a
    IN IF b <= 90 THEN CosTable[b + 1] ELSE 0 - CosTable[180 - b + 1]

RelativeAngle_NoShift(windFromDeg, cyclistDirection) ==
    JsRem(windFromDeg - cyclistDirection + 180, 360)

\* The relative angle of calculateRelativeWind.
RelativeAngle(windFromDeg, cyclistDirection) ==
    JsRem(windFromDeg - cyclistDirection + 180, 360) - 180

\* One point as calculateRelativeWind leaves it.
\* With the bearing undefined the product is NaN.
RelativeWind(point) ==
    IF IsNull(point.bearing) THEN [point EXCEPT !.wind_faced = Null]
    ELSE LET relativeAngle == RelativeAngle(Val(point.wind_direction), Val(point.bearing))
         IN [point EXCEPT !.wind_faced = Some((Val(point.wind_speed) * Cos(relativeAngle)) \div 1000)]

\* interpolateWindAlongRoute(): the track as it leaves it.
interpolateWindAlongRoute(gpx, wind) ==
    [i \in 1..Len(gpx) |->
        LET w == interpolateWindForPoint(wind, gpx[i])
        IN RelativeWind([gpx[i] EXCEPT !.wind_speed = Some(w.wind_speed),
                                       !.wind_direction = Some(w.wind_direction)])]

\* ------------------------------------------------------------- statistics

\* values.reduce((sum, v) => sum + v, 0)
RECURSIVE SumOf(_)
SumOf(values) == IF values = <<>> THEN 0 ELSE Head(values) + SumOf(Tail(values))

\* Math.max(...values) and Math.min(...values) of a list that is not empty.
MaxOf(values) == CHOOSE v \in { values[i] : i \in 1..Len(values) } :
                    \A i \in 1..Len(values) : v >= values[i]
MinOf(values) == CHOOSE v \in { values[i] : i \in 1..Len(values) } :
                    \A i \in 1..Len(values) : v <= values[i]

calculateRouteStatistics_NoClamp(gpx) ==
    LET n == Len(gpx)
        speeds == SelectSeq([i \in 1..n |-> Val(gpx[i].speed_kmh)], LAMBDA v : v > 0)
        windFacedValues == [i \in 1..n |-> Val(gpx[i].wind_faced)]
        windSpeedValues == [i \in 1..n |-> Val(gpx[i].wind_speed)]
    IN [totalDistance |-> calculateTotalDistance(gpx),
        totalTime |-> TimeNum(gpx[n].time) - TimeNum(gpx[1].time),
        avgSpeed |-> IF Len(speeds) > 0 THEN SumOf(speeds) \div Len(speeds) ELSE 0,
        avgWindFaced |-> SumOf(windFacedValues) \div n,
        maxHeadwind |-> MaxOf(windFacedValues),
        maxTailwind |-> Abs(MinOf(windFacedValues)),
        avgWindSpeed |-> SumOf(windSpeedValues) \div n,
        headwindPercentage |->
            (Len(SelectSeq(windFacedValues, LAMBDA v : v >= 0)) * 100) \div n]

\* calculateRouteStatistics() on an enriched track that is not empty.
\* Distance in decimetres, time in minutes, speeds in m/h; the averages
\* and the percentage are cut to the whole unit below.
calculateRouteStatistics(gpx) ==
    LET n == Len(gpx)
        speeds == SelectSeq([i \in 1..n |-> Val(gpx[i].speed_kmh)], LAMBDA v : v > 0)
        windFacedValues == [i \in 1..n |-> Val(gpx[i].wind_faced)]
        windSpeedValues == [i \in 1..n |-> Val(gpx[i].wind_speed)]
        Max0(v) == IF v > 0 THEN v ELSE 0
        Min0(v) == IF v < 0 THEN v ELSE 0
    IN [totalDistance |-> calculateTotalDistance(gpx),
        totalTime |-> TimeNum(gpx[n].time) - TimeNum(gpx[1].time),
        avgSpeed |-> IF Len(speeds) > 0 THEN SumOf(speeds) \div Len(speeds) ELSE 0,
        avgWindFaced |-> SumOf(windFacedValues) \div n,
        maxHeadwind |-> MaxOf([i \in 1..n |-> Max0(windFacedValues[i])]),
        maxTailwind |-> Abs(MinOf([i \in 1..n |-> Min0(windFacedValues[i])])),
        avgWindSpeed |-> SumOf(windSpeedValues) \div n,
        headwindPercentage |->
            (Len(SelectSeq(windFacedValues, LAMBDA v : v >= 0)) * 100) \div n]

\* ------------------------------------------------------------ readGPXFile

\* What readGPXFile(file) comes to once file.text() has resolved: how it
\* ends ("ok" when it returns true, else the error it throws) and the
\* gpxData it leaves, given the gpxData it found.
ReadResult(status, gpx) == [status |-> status, gpxData |-> gpx]

readGPXFile(file, before) ==
    IF ~file.wellFormed THEN ReadResult("InvalidFormat", before)
    ELSE IF file.points = <<>> THEN ReadResult("NoPointElements", before)
    ELSE LET points == extractGPXPoints(file.points)
         IN IF Len(points) = 0 THEN ReadResult("NoValidPoints", before)
            ELSE IF ~validateTimestamps(points) THEN ReadResult("MissingTimestamps", before)
            ELSE LET sorted == SortByTime(points)
                 IN IF IsNull(sorted[1].time) \/ IsNull(sorted[Len(sorted)].time)
                    THEN ReadResult("TypeError", sorted)
                    ELSE ReadResult("ok", calculateSpeedAndBearing(sorted))

\* ------------------------------------------------------------------ state

VARIABLES
    gpxData,    \* analyzer.gpxData
    windData,   \* analyzer.windData
    progress,   \* the last updateProgress(currentStep, totalSteps), or <<>>
    label,      \* the text of label[for=gpxFile]
    dom,        \* which of the page's sections are shown
    run,        \* the invocations of the file handlers, by slot
    hover       \* the hover marker of the map and the closure of throttledMapUpdate

vars == <<gpxData, windData, progress, label, dom, run, hover>>

Slots == 1..MaxRuns

\* One invocation of the loadExampleBtn listener or of handleFileSelection.
\*   pc          where it is suspended: "exampleFetch" (fetch of
\*               example.gpx), "reading" (file.text()), "loadingDelay"
\*               (delay(100)), "request" (the weather request), "pacing"
\*               (delay(API_DELAY)); "idle" before it exists and "returned"
\*               once it is over
\*   file        the File whose text readGPXFile awaits
\*   points      the array extractGPXPoints returned, while the invocation
\*               is suspended in delay(100)
\*   read        how readGPXFile ended, "" before it has
\*   startTime, endTime, currentTime, totalSteps, currentStep,
\*   closestPoint  the locals of getWindDataEvery30Min
\*   failed      for every grid step taken, whether its request failed
\*   gap         the ms of delay() awaited since the latest weather request
\*               of this invocation settled, <<>> while none has
\*   reports     the updateProgress calls of getWindDataEvery30Min so far
\*   outcome     how the invocation ended, "" before it has
IdleRun ==
    [pc |-> "idle", file |-> NotGpxFile, points |-> <<>>, read |-> "",
     startTime |-> 0, endTime |-> 0, currentTime |-> 0, totalSteps |-> 0,
     currentStep |-> 0, closestPoint |-> Null, failed |-> <<>>, gap |-> Null,
     reports |-> <<>>, outcome |-> ""]

\* One updateProgress(currentStep, totalSteps) call: the reset before the
\* loop ("reset"), the call that ends a grid step ("step"), or the call
\* after the loop ("final").
Report(kind, currentStep, totalSteps) ==
    [kind |-> kind, currentStep |-> currentStep, totalSteps |-> totalSteps]

Alive(r) == run[r].pc \notin {"idle", "returned"}
Free(r) == ~Alive(r)

\* The slot a new invocation takes.
FreeSlot == CHOOSE r \in Slots : Free(r) /\ \A q \in Slots : Free(q) => r <= q

ExampleFile ==
    GpxFile(<< RawPoint(Some(45000000), Some(10000000), EleNum(100), TimeText("iso", T0)),
               RawPoint(Some(45010000), Some(10000000), EleMissing, TimeText("iso", T0 + 30)) >>)

\* The sections toggled by showLoading, showResults, showError and the
\* uploadNewBtn listener.
Dom(loading, results, upload, fileDropArea) ==
    [loading |-> loading, results |-> results, upload |-> upload, fileDropArea |-> fileDropArea]

showLoading(d) == Dom(TRUE, FALSE, TRUE, FALSE)
showResults(d) == Dom(FALSE, TRUE, FALSE, d.fileDropArea)
showError(d) == Dom(FALSE, d.results, TRUE, TRUE)

\* The hover marker and the closure throttle() returned.
\*   currentHoverMarker  the index of the point the marker stands on, or <<>>
\*   onMap               how many hover markers are layers of the map
\*   lastHighlightIndex  this.lastHighlightIndex
\*   timeout             whether the closure's trailing timer is pending
\*   elapsed             Date.now() - previous in ms, THROTTLE_WAIT standing
\*                       for that and more
\*   args                the index of the latest call, or <<>>
\*   pointer             the latest pointer event on a chart: "none", "move"
\*                       or "leave"
HoverAtRest ==
    [currentHoverMarker |-> Null, onMap |-> 0, lastHighlightIndex |-> 0 - 1,
     timeout |-> FALSE, elapsed |-> THROTTLE_WAIT, args |-> Null, pointer |-> "none"]

\* cleanupMap(), called by createMap(): the map goes with its layers.
cleanupMap(h) == [h EXCEPT !.currentHoverMarker = Null, !.onMap = 0]

clearMapHighlight(h) ==
    [h EXCEPT !.onMap = IF IsNull(h.currentHoverMarker) THEN @ ELSE @ - 1,
              !.currentHoverMarker = Null,
              !.lastHighlightIndex = 0 - 1]

\* updateMapHighlight(index) on track gpx; the points are counted from 1.
updateMapHighlight(h, gpx, index) ==
    IF index < 1 \/ index > Len(gpx)
    THEN h
    ELSE LET cleared == clearMapHighlight(h)
         IN [cleared EXCEPT !.currentHoverMarker = Some(index), !.onMap = @ + 1]

\* One call of the function throttle(updateMapHighlight, 8) returned.
throttledMapUpdate(h, gpx, index) ==
    LET called == [h EXCEPT !.args = Some(index)]
    IN IF h.elapsed >= THROTTLE_WAIT
       THEN updateMapHighlight([called EXCEPT !.timeout = FALSE, !.elapsed = 0], gpx, index)
       ELSE IF ~h.timeout
            THEN [called EXCEPT !.timeout = TRUE]
            ELSE called

Init ==
    /\ hover = HoverAtRest
    /\ gpxData = <<>>
    /\ windData = <<>>
    /\ progress = Null
    /\ label = "choose"
    /\ dom = Dom(FALSE, FALSE, TRUE, TRUE)
    /\ run = [r \in Slots |-> IdleRun]

\* ------------------------------------------------- getWindDataEvery30Min

\* How the promise of analyze() settles, threw telling whether one of its
\* steps threw: the catch of analyze() calls showError and returns.
analyze(threw) == "fulfilled"

\* The label once handleFileSelection resumes from await analyzer.analyze(),
\* text being the label before.
AnalyzeSettled(settled, text) ==
    IF settled = "rejected" THEN "analysisFailed" ELSE text


\* The loop of getWindDataEvery30Min from its test on: invocation r, with
\* locals rr, finds windData wind and the progress bar at prog.  Either it
\* issues the next weather request, or the loop is over and analyze() runs
\* to its end, or findClosestGPXPoint throws on an empty track.
LoopTest(r, rr, wind, prog) ==
    IF rr.currentTime <= rr.endTime
    THEN IF gpxData = <<>>
         THEN /\ run' = [run EXCEPT ![r] = [rr EXCEPT !.pc = "returned", !.outcome = "analysisError"]]
              /\ windData' = wind
              /\ progress' = prog
              /\ dom' = showError(dom)
              /\ label' = AnalyzeSettled(analyze(TRUE), label)
              /\ UNCHANGED <<gpxData, hover>>
         ELSE /\ run' = [run EXCEPT ![r] =
                    [rr EXCEPT !.pc = "request",
                               !.closestPoint = Some(findClosestGPXPoint(gpxData, rr.currentTime))]]
              /\ windData' = wind
              /\ progress' = prog
              /\ UNCHANGED <<gpxData, label, dom, hover>>
    ELSE /\ progress' = Some(<<rr.totalSteps, rr.totalSteps>>)
         /\ windData' = wind
         /\ gpxData' = interpolateWindAlongRoute(gpxData, wind)
         /\ LET reports == Append(rr.reports, Report("final", rr.totalSteps, rr.totalSteps))
            IN IF gpxData = <<>>
               THEN /\ run' = [run EXCEPT ![r] = [rr EXCEPT !.pc = "returned", !.reports = reports,
                                                            !.outcome = "analysisError"]]
                    /\ dom' = showError(dom)
                    /\ UNCHANGED hover
               ELSE /\ run' = [run EXCEPT ![r] = [rr EXCEPT !.pc = "returned", !.reports = reports,
                                                            !.outcome = "results"]]
                    /\ dom' = showResults(dom)
                    /\ hover' = cleanupMap(hover)
         /\ label' = AnalyzeSettled(analyze(gpxData = <<>>), label)

StepDone_NoAdvance(r, rr, wind) ==
    LET step == rr.currentStep + 1
    IN LoopTest(r, [rr EXCEPT !.currentStep = step,
                              !.reports = Append(rr.reports, Report("step", step, rr.totalSteps))],
                wind, Some(<<step, rr.totalSteps>>))

\* updateProgress(++currentStep, totalSteps); currentTime += interval; and
\* the loop again.
StepDone(r, rr, wind) ==
    LET step == rr.currentStep + 1
    IN LoopTest(r, [rr EXCEPT !.currentStep = step,
                              !.reports = Append(rr.reports, Report("step", step, rr.totalSteps)),
                              !.currentTime = rr.currentTime + WIND_FETCH_INTERVAL],
                wind, Some(<<step, rr.totalSteps>>))

\* delay(100) resolves: progress reset, windData emptied, first loop test.
LoadingDelayDone(r) ==
    /\ run[r].pc = "loadingDelay"
    /\ LoopTest(r, [run[r] EXCEPT !.currentTime = run[r].startTime,
                                  !.totalSteps = Ceil(run[r].endTime - run[r].startTime, WIND_FETCH_INTERVAL),
                                  !.currentStep = 0,
                                  !.points = <<>>,
                                  !.reports = << Report("reset", 0, 1) >>,
                                  !.gap = Null],
                <<>>, Some(<<0, 1>>))

RequestSettled_NoDefault(r, response) ==
    /\ run[r].pc = "request"
    /\ run[r].currentStep < MaxSteps
    /\ LET rr == run[r]
           point == Val(rr.closestPoint)
       IN IF RequestFails(response)
          THEN StepDone(r, [rr EXCEPT !.failed = Append(rr.failed, TRUE), !.gap = Some(0)], windData)
          ELSE LET windInfo == parseWeatherData(response, rr.currentTime)
               IN /\ windData' = Append(windData,
                        WindSample(rr.currentTime, point.lat, point.lon,
                                   windInfo.wind_speed, windInfo.wind_direction))
                  /\ run' = [run EXCEPT ![r] = [rr EXCEPT !.pc = "pacing",
                                                          !.failed = Append(rr.failed, FALSE),
                                                          !.gap = Some(0)]]
                  /\ UNCHANGED <<gpxData, progress, label, dom, hover>>

\* The weather request of the current grid step settles with response.
RequestSettled(r, response) ==
    /\ run[r].pc = "request"
    /\ run[r].currentStep < MaxSteps
    /\ LET rr == run[r]
           point == Val(rr.closestPoint)
       IN IF RequestFails(response)
          THEN StepDone(r, [rr EXCEPT !.failed = Append(rr.failed, TRUE), !.gap = Some(0)],
                        Append(windData, createDefaultWindData(rr.currentTime, point)))
          ELSE LET windInfo == parseWeatherData(response, rr.currentTime)
               IN /\ windData' = Append(windData,
                        WindSample(rr.currentTime, point.lat, point.lon,
                                   windInfo.wind_speed, windInfo.wind_direction))
                  /\ run' = [run EXCEPT ![r] = [rr EXCEPT !.pc = "pacing",
                                                          !.failed = Append(rr.failed, FALSE),
                                                          !.gap = Some(0)]]
                  /\ UNCHANGED <<gpxData, progress, label, dom, hover>>

\* delay(API_DELAY) resolves.
PacingDone(r) ==
    /\ run[r].pc = "pacing"
    /\ StepDone(r, [run[r] EXCEPT !.gap = Some(Val(run[r].gap) + API_DELAY)], windData)

\* ------------------------------------------------------- the page's handlers

\* handleFileSelection(file) up to its first suspension, in slot r.
handleFileSelection(r, file) ==
    /\ run' = [run EXCEPT ![r] =
            IF file.gpx
            THEN [IdleRun EXCEPT !.pc = "reading", !.file = file]
            ELSE [IdleRun EXCEPT !.pc = "returned", !.outcome = "notGpx"]]
    /\ UNCHANGED <<gpxData, windData, progress, label, dom, hover>>

\* A change event of the file input, or a drop on the drop area.
FileSelected(file) ==
    /\ \E r \in Slots : Free(r)
    /\ handleFileSelection(FreeSlot, file)

\* A click on loadExampleBtn: the listener awaits fetch('./example.gpx').
LoadExampleClicked ==
    /\ \E r \in Slots : Free(r)
    /\ run' = [run EXCEPT ![FreeSlot] = [IdleRun EXCEPT !.pc = "exampleFetch"]]
    /\ UNCHANGED <<gpxData, windData, progress, label, dom, hover>>

\* The fetch of example.gpx settles.
ExampleFetched(r, ok) ==
    /\ run[r].pc = "exampleFetch"
    /\ IF ok
       THEN handleFileSelection(r, ExampleFile)
       ELSE /\ run' = [run EXCEPT ![r] = [IdleRun EXCEPT !.pc = "returned", !.outcome = "exampleFailed"]]
            /\ UNCHANGED <<gpxData, windData, progress, label, dom, hover>>

\* file.text() resolves: the rest of readGPXFile, and on success
\* handleFileSelection up to the delay(100) of getWindDataEvery30Min.
ReadDone(r) ==
    /\ run[r].pc = "reading"
    /\ LET res == readGPXFile(run[r].file, gpxData)
       IN /\ gpxData' = res.gpxData
          /\ IF res.status = "ok"
             THEN /\ label' = "analyzing"
                  /\ dom' = showLoading(dom)
                  /\ run' = [run EXCEPT ![r] =
                        [@ EXCEPT !.pc = "loadingDelay", !.read = res.status,
                                  !.file = NotGpxFile,
                                  !.points = extractGPXPoints(run[r].file.points),
                                  !.startTime = Val(res.gpxData[1].time),
                                  !.endTime = Val(res.gpxData[Len(res.gpxData)].time)]]
             ELSE /\ label' = "loadFailed"
                  /\ dom' = dom
                  /\ run' = [run EXCEPT ![r] =
                        [@ EXCEPT !.pc = "returned", !.read = res.status, !.file = NotGpxFile,
                                  !.outcome = "readFailed"]]
          /\ UNCHANGED <<windData, progress, hover>>

\* A click on uploadNewBtn.
UploadNewClicked ==
    /\ dom' = Dom(FALSE, FALSE, TRUE, TRUE)
    /\ label' = "choose"
    /\ gpxData' = <<>>
    /\ windData' = <<>>
    /\ UNCHANGED <<progress, run, hover>>

\* ---------------------------------------------------------- specifications

\* Files loaded while another invocation may be alive.
SampleFiles ==
    { GpxFile(<< RawPoint(Some(45010000), Some(10000000), EleMissing, TimeText("iso", T0 + 30)) >>),
      GpxFile(<< RawPoint(Some(45000000), Some(10000000), EleNum(100), TimeText("missing", 0)) >>) }

\* The page: events arrive whenever the event loop is free, also while
\* earlier invocations are suspended.
Next ==
    \/ \E file \in SampleFiles : FileSelected(file)
    \/ LoadExampleClicked
    \/ UploadNewClicked
    \/ \E r \in Slots, ok \in BOOLEAN : ExampleFetched(r, ok)
    \/ \E r \in Slots : ReadDone(r)
    \/ \E r \in Slots : LoadingDelayDone(r)
    \/ \E r \in Slots, response \in Responses : RequestSettled(r, response)
    \/ \E r \in Slots : PacingDone(r)

Spec == Init /\ [][Next]_vars

\* No invocation is suspended.
Quiet == \A r \in Slots : Free(r)

\* The page used one analysis at a time: the user starts a load only from
\* the upload section and when no invocation is suspended, and clicks
\* uploadNewBtn only in the results section.
NextSeq ==
    \/ Quiet /\ dom.upload /\ dom.fileDropArea /\ \E file \in Files : FileSelected(file)
    \/ Quiet /\ dom.upload /\ dom.fileDropArea /\ LoadExampleClicked
    \/ Quiet /\ dom.results /\ UploadNewClicked
    \/ \E r \in Slots, ok \in BOOLEAN : ExampleFetched(r, ok)
    \/ \E r \in Slots : ReadDone(r)
    \/ \E r \in Slots : LoadingDelayDone(r)
    \/ \E r \in Slots, response \in Responses : RequestSettled(r, response)
    \/ \E r \in Slots : PacingDone(r)

SpecSeq == Init /\ [][NextSeq]_vars

\* One analysis at a time, where every timer fires and every weather
\* request settles.
SpecSeqFair ==
    /\ SpecSeq
    /\ WF_vars(\E r \in Slots : LoadingDelayDone(r))
    /\ WF_vars(\E r \in Slots, response \in Responses : RequestSettled(r, response))
    /\ WF_vars(\E r \in Slots : PacingDone(r))

\* --------------------------------------------- the passes taken one by one

\* Everything but the analyzer's two arrays, at rest.
PageAtRest ==
    /\ hover = HoverAtRest
    /\ progress = Null
    /\ label = "analyzing"
    /\ dom = Dom(TRUE, FALSE, TRUE, FALSE)
    /\ run = [r \in Slots |-> IdleRun]

\* The points of the tracks below: on a meridian 0.01 degrees of latitude
\* apart (1.1 km), half a metre north of the middle one, 0.8 km east of
\* the middle one, and at instants one and thirty minutes apart.
KinPoints ==
    { NewPoint(c[1], c[2], 0, Some(T0 + dt)) :
        c \in { <<45000000, 10000000>>, <<45010000, 10000000>>, <<45010005, 10000000>>,
                <<45020000, 10000000>>, <<45010000, 10010000>> },
        dt \in {0, 1, 30, 31} }

\* gpxData as line 97 of readGPXFile leaves it: sorted by time.
KinTracks == { SortByTime(ps) : ps \in SeqsUpTo(KinPoints, MaxTrack) \ { <<>> } }

\* readGPXFile calls calculateSpeedAndBearing on the sorted track.
KinematicsApplied ==
    /\ IsNull(gpxData[1].speed_kmh)
    /\ gpxData' = calculateSpeedAndBearing(gpxData)
    /\ UNCHANGED <<windData, progress, label, dom, run, hover>>

\* calculateSpeedAndBearing called again on the track it has enriched.
KinematicsReapplied ==
    /\ ~IsNull(gpxData[1].speed_kmh)
    /\ gpxData' = calculateSpeedAndBearing(gpxData)
    /\ UNCHANGED <<windData, progress, label, dom, run, hover>>

InitKinematics == gpxData \in KinTracks /\ windData = <<>> /\ PageAtRest

NextKinematics == KinematicsApplied \/ KinematicsReapplied

SpecKinematics == InitKinematics /\ [][NextKinematics]_vars

\* Tracks with kinematics: a point, or a point and a move from it to the
\* north, east, south or west, at instants on and off the sampling grid.
WindTrackTimes == { T0, T0 + 15, T0 + 30, T0 + 45 }

WindTracks ==
    { calculateSpeedAndBearing(<< NewPoint(45010000, 10000000, 0, Some(t)) >>) : t \in WindTrackTimes }
    \cup
    { calculateSpeedAndBearing(<< NewPoint(45010000, 10000000, 0, Some(tt[1])),
                                 NewPoint(c[1], c[2], 0, Some(tt[2])) >>) :
        tt \in { pair \in WindTrackTimes \X WindTrackTimes : pair[1] <= pair[2] },
        c \in { <<45020000, 10000000>>, <<45010000, 10010000>>,
                <<45000000, 10000000>>, <<45010000, 9990000>> } }

\* What a sample can hold: the default of a failed request, or a parsed
\* response.
WindValues ==
    { [wind_speed |-> DEFAULT_WIND_SPEED * 1000, wind_direction |-> DEFAULT_WIND_DIRECTION],
      [wind_speed |-> 4000, wind_direction |-> 0],
      [wind_speed |-> 6000, wind_direction |-> 90],
      [wind_speed |-> 8000, wind_direction |-> 270] }

\* windData as the loop of getWindDataEvery30Min leaves it: samples on a
\* 30 minute grid in ascending order, from the grid time first onwards.
WindSeriesFrom(first, n) ==
    { [k \in 1..n |-> WindSample(T0 + (first + k - 1) * WIND_FETCH_INTERVAL, 45010000, 10000000,
                                 v[k].wind_speed, v[k].wind_direction)] :
        v \in [1..n -> WindValues] }

WindSeries == UNION { WindSeriesFrom(first, n) : first \in {0, 1}, n \in 1..MaxWind }

\* analyze() calls interpolateWindAlongRoute once the sampling is over.
InterpolationApplied ==
    /\ IsNull(gpxData[1].wind_speed)
    /\ gpxData' = interpolateWindAlongRoute(gpxData, windData)
    /\ UNCHANGED <<windData, progress, label, dom, run, hover>>

InitWind == gpxData \in WindTracks /\ windData \in WindSeries /\ PageAtRest

NextWind == InterpolationApplied

SpecWind == InitWind /\ [][NextWind]_vars

\* ------------------------------------------------------ the hover marker

\* The results of an analysis whose grid had one sample: a point, or a
\* move of at most 15 minutes, with the wind of that sample.
HoverTracks(wind) ==
    { interpolateWindAlongRoute(t, wind) :
        t \in { track \in WindTracks :
                  /\ Val(track[1].time) = T0
                  /\ Val(track[Len(track)].time) <= T0 + 15 } }

\* A pointermove over the point index of a chart.
PointerMove(index) ==
    /\ hover' = [throttledMapUpdate(hover, gpxData, index) EXCEPT !.pointer = "move"]
    /\ UNCHANGED <<gpxData, windData, progress, label, dom, run>>

\* A pointerleave of a chart.
PointerLeave ==
    /\ hover' = [clearMapHighlight(hover) EXCEPT !.pointer = "leave"]
    /\ UNCHANGED <<gpxData, windData, progress, label, dom, run>>

\* The trailing timer of the throttle fires.
ThrottleTimerFired ==
    /\ hover.timeout
    /\ hover.elapsed >= THROTTLE_WAIT
    /\ hover' = updateMapHighlight([hover EXCEPT !.timeout = FALSE, !.elapsed = 0],
                                    gpxData, Val(hover.args))
    /\ UNCHANGED <<gpxData, windData, progress, label, dom, run>>

\* A millisecond passes.
MillisecondPassed ==
    /\ hover.elapsed < THROTTLE_WAIT
    /\ hover' = [hover EXCEPT !.elapsed = @ + 1]
    /\ UNCHANGED <<gpxData, windData, progress, label, dom, run>>

InitHover ==
    /\ \E wind \in WindSeriesFrom(0, 1) :
        /\ windData = wind
        /\ gpxData \in HoverTracks(wind)
    /\ LET totalSteps == Ceil(Val(gpxData[Len(gpxData)].time) - Val(gpxData[1].time),
                              WIND_FETCH_INTERVAL)
       IN progress = Some(<<totalSteps, totalSteps>>)
    /\ label = "analyzing"
    /\ dom = Dom(FALSE, TRUE, FALSE, FALSE)
    /\ run = [r \in Slots |-> IdleRun]
    /\ hover = HoverAtRest

NextHover ==
    \/ \E index \in 1..Len(gpxData) : PointerMove(index)
    \/ PointerLeave
    \/ ThrottleTimerFired
    \/ MillisecondPassed

SpecHover == InitHover /\ [][NextHover]_vars

\* ------------------------------------------------------------------ claims

\* What the claims say of an input, stated on the file itself.
InRange(p) ==
    /\ ~IsNull(p.lat) /\ Val(p.lat) >= 0 - 90000000 /\ Val(p.lat) <= 90000000
    /\ ~IsNull(p.lon) /\ Val(p.lon) >= 0 - 180000000 /\ Val(p.lon) <= 180000000

TimedAfter2000(t) == ~IsNull(t) /\ getFullYear(Val(t)) > 2000

GoodPoint(p) == InRange(p) /\ TimedAfter2000(extractTimestamp(p))

\* Invocation r leaves readGPXFile in this step.
ReadEnds(r) == run[r].pc = "reading" /\ run'[r].pc # "reading"

Sampling(r) == run[r].pc \in {"loadingDelay", "request", "pacing"}

\* C1: readGPXFile returns true for every file with at least one point
\* that has in-range coordinates and a valid timestamp after 2000.
C1_ReadSucceeds ==
    [][\A r \in Slots :
        (/\ ReadEnds(r)
         /\ run[r].file.wellFormed
         /\ \E i \in 1..Len(run[r].file.points) : GoodPoint(run[r].file.points[i]))
        => run'[r].read = "ok"]_vars

C3_MissingTimestamps ==
    [][\A r \in Slots :
        (/\ ReadEnds(r)
         /\ run[r].file.wellFormed
         /\ LET points == extractGPXPoints(run[r].file.points)
            IN /\ points # <<>>
               /\ \A i \in 1..Len(points) : InRange([lat |-> Some(points[i].lat), lon |-> Some(points[i].lon)])
               /\ \A i \in 1..Len(points) : ~TimedAfter2000(points[i].time))
        => /\ run'[r].read = "MissingTimestamps"
           /\ run'[r].pc = "returned"
           /\ gpxData' = gpxData
           /\ windData' = windData]_vars

\* A read has ended with the missing-timestamps error.
C3_Witness == \E r \in Slots : run[r].pc = "returned" /\ run[r].read = "MissingTimestamps"

\* C4: when readGPXFile throws, gpxData is what it was.
C4_FailedReadKeepsTrack ==
    [][\A r \in Slots :
        (ReadEnds(r) /\ run'[r].read # "ok") => gpxData' = gpxData]_vars

\* The points extractGPXPoints is to keep, in encounter order: those with a
\* latitude in [-90, 90] and a longitude in [-180, 180].
RECURSIVE KeepInRange(_)
KeepInRange(trackPoints) ==
    IF trackPoints = <<>> THEN <<>>
    ELSE LET p == Head(trackPoints)
         IN IF InRange(p)
            THEN <<NewPoint(Val(p.lat), Val(p.lon), extractElevation(p), extractTimestamp(p))>>
                 \o KeepInRange(Tail(trackPoints))
            ELSE KeepInRange(Tail(trackPoints))

\* C5: extractGPXPoints keeps exactly the in-range points of the file that
\* readGPXFile is about to extract, in encounter order.
C5_KeepsInRangePoints ==
    \A r \in Slots :
        (run[r].pc = "reading" /\ run[r].file.wellFormed)
        => extractGPXPoints(run[r].file.points) = KeepInRange(run[r].file.points)

TimeOrdered(points) ==
    \A i \in 1..(Len(points) - 1) : TimeNum(points[i].time) <= TimeNum(points[i + 1].time)

\* C6: after a successful readGPXFile gpxData is in time order.
C6_SortedByTime ==
    \A r \in Slots : (run[r].read = "ok" /\ Sampling(r)) => TimeOrdered(gpxData)

\* A read has succeeded on points that were extracted out of time order.
C6_Witness ==
    \E r \in Slots :
        /\ run[r].read = "ok" /\ run[r].pc = "loadingDelay"
        /\ ~TimeOrdered(run[r].points)
        /\ Len(gpxData) = Len(run[r].points)

\* The run of invocation r is over and its results are on the page.
ResultsShown(r) == run[r].pc = "returned" /\ run[r].outcome = "results" /\ dom.results

\* C7: a finished sampling run leaves in windData one sample for each grid
\* time start + k * 30 min <= end, in that order.
C7_OneSamplePerGridTime ==
    \A r \in Slots :
        ResultsShown(r)
        => /\ Len(windData) = ((run[r].endTime - run[r].startTime) \div 30) + 1
           /\ \A k \in 1..Len(windData) : windData[k].time = run[r].startTime + (k - 1) * 30

\* A run of at least two grid steps has finished, with a failed and a
\* successful request.
C7_Witness ==
    \E r \in Slots :
        /\ ResultsShown(r)
        /\ Len(windData) >= 2
        /\ \E k \in 1..Len(run[r].failed) : run[r].failed[k]
        /\ \E k \in 1..Len(run[r].failed) : ~run[r].failed[k]

\* Point p of the track is at the least distance in time from t.
ClosestInTime(p, t) ==
    \A j \in 1..Len(gpxData) :
        Abs(t - TimeNum(p.time)) <= Abs(t - TimeNum(gpxData[j].time))

\* C8: the sample of a grid step whose request failed is 10 km/h from 180
\* degrees at the step's grid time and at the location of the track point
\* closest to it in time, and after a failed request the run goes on to the
\* next grid step or finishes; it does not end in an error.
C8_FailedStepDefault ==
    \A r \in Slots :
        (Sampling(r) \/ ResultsShown(r))
        => /\ \A k \in 1..Len(run[r].failed) :
                run[r].failed[k]
                => /\ k <= Len(windData)
                   /\ windData[k].wind_speed = 10 * 1000
                   /\ windData[k].wind_direction = 180
                   /\ windData[k].time = run[r].startTime + (k - 1) * 30
                   /\ \E i \in 1..Len(gpxData) :
                        /\ ClosestInTime(gpxData[i], windData[k].time)
                        /\ windData[k].lat = gpxData[i].lat
                        /\ windData[k].lon = gpxData[i].lon
           /\ (Len(run[r].failed) > 0 /\ run[r].failed[Len(run[r].failed)])
                => \/ /\ run[r].pc = "request"
                      /\ run[r].currentStep = Len(run[r].failed)
                      /\ run[r].currentTime = run[r].startTime + Len(run[r].failed) * 30
                   \/ ResultsShown(r)

\* A request failed and the run took a later grid step.
C8_Witness ==
    \E r \in Slots :
        /\ Sampling(r) \/ ResultsShown(r)
        /\ Len(run[r].failed) >= 2
        /\ run[r].failed[1]

\* C9: a weather request that follows another of its run is issued only
\* after API_DELAY ms of delay.
C9_PacedRequests ==
    \A r \in Slots :
        (run[r].pc = "request" /\ ~IsNull(run[r].gap)) => Val(run[r].gap) >= 200

\* C10: at most one weather request is in flight.
C10_OneRequestInFlight ==
    Cardinality({ r \in Slots : run[r].pc = "request" }) <= 1

\* Invocation r ends its sampling run with results in this step.
RunFinishes(r) ==
    /\ run[r].pc \in {"request", "pacing"}
    /\ run'[r].pc = "returned"
    /\ run'[r].outcome = "results"

\* The number of grid times start + k * 30 min <= end of invocation r.
GridSteps(r) == ((run[r].endTime - run[r].startTime) \div 30) + 1

\* C11: when a sampling run finishes, windData holds the samples of that
\* run only: one per grid time of the run, in ascending time order, also
\* when other loads or Upload New clicks happened during the run.
C11_RunOwnsWindData ==
    [][\A r \in Slots :
        RunFinishes(r)
        => /\ Len(windData') = GridSteps(r)
           /\ \A k \in 1..Len(windData') :
                windData'[k].time = run[r].startTime + (k - 1) * 30]_vars

\* C12: every progress report issued after a grid step has
\* 1 <= stepsCompleted <= totalSteps, and totalSteps is the number of grid
\* steps of the run.
C12_StepReports ==
    \A r \in Slots :
        \A k \in 1..Len(run[r].reports) :
            run[r].reports[k].kind = "step"
            => /\ 1 <= run[r].reports[k].currentStep
               /\ run[r].reports[k].currentStep <= run[r].reports[k].totalSteps
               /\ run[r].reports[k].totalSteps >= 1
               /\ run[r].reports[k].totalSteps = GridSteps(r)

\* The fraction of report a is a number and is at most that of report b.
FractionLeq(a, b) ==
    /\ a.totalSteps > 0
    /\ b.totalSteps > 0
    /\ a.currentStep * b.totalSteps <= b.currentStep * a.totalSteps

\* C13: within one sampling run the reported fraction
\* stepsCompleted / totalSteps never decreases from one report to the next.
C13_MonotonicProgress ==
    \A r \in Slots :
        \A k \in 1..(Len(run[r].reports) - 1) :
            FractionLeq(run[r].reports[k], run[r].reports[k + 1])

\* The track points that interpolateWindAlongRoute has given a wind.
Enriched == { i \in 1..Len(gpxData) : ~IsNull(gpxData[i].wind_speed) }

\* Point i of the track has the wind speed and direction of sample k.
HasWindOf(i, k) ==
    /\ gpxData[i].wind_speed = Some(windData[k].wind_speed)
    /\ gpxData[i].wind_direction = Some(windData[k].wind_direction)

\* C14: with at least two samples, a point later than every sample has the
\* wind of the last sample, and a point earlier than every sample has the
\* wind of the first sample.
C14_NearestOutside ==
    \A i \in Enriched :
        Len(windData) >= 2
        => /\ (\A k \in 1..Len(windData) : windData[k].time < TimeNum(gpxData[i].time))
                => HasWindOf(i, Len(windData))
           /\ (\A k \in 1..Len(windData) : windData[k].time > TimeNum(gpxData[i].time))
                => HasWindOf(i, 1)

\* value is before + (after - before) * (t - tBefore) / (tAfter - tBefore).
IsLinearBetween(value, before, after, t, tBefore, tAfter) ==
    (value - before) * (tAfter - tBefore) = (after - before) * (t - tBefore)

\* C15: with at least two samples, a point at the time of a sample has that
\* sample's wind, and a point strictly between two consecutive samples has
\* the linear interpolation of their speeds and of their directions.
C15_InterpolatedWind ==
    \A i \in Enriched :
        Len(windData) >= 2
        => /\ \A k \in 1..Len(windData) :
                windData[k].time = TimeNum(gpxData[i].time) => HasWindOf(i, k)
           /\ \A k \in 1..(Len(windData) - 1) :
                (/\ windData[k].time < TimeNum(gpxData[i].time)
                 /\ TimeNum(gpxData[i].time) < windData[k + 1].time)
                => /\ IsLinearBetween(Val(gpxData[i].wind_speed),
                                      windData[k].wind_speed, windData[k + 1].wind_speed,
                                      TimeNum(gpxData[i].time), windData[k].time, windData[k + 1].time)
                   /\ IsLinearBetween(Val(gpxData[i].wind_direction),
                                      windData[k].wind_direction, windData[k + 1].wind_direction,
                                      TimeNum(gpxData[i].time), windData[k].time, windData[k + 1].time)

\* Of three samples that differ, one point lies strictly between the first
\* two and another is at the time of the interior one.
C15_Witness ==
    /\ Len(windData) = 3
    /\ windData[1].wind_speed # windData[2].wind_speed
    /\ windData[1].wind_direction # windData[2].wind_direction
    /\ \E i \in Enriched :
        windData[1].time < TimeNum(gpxData[i].time) /\ TimeNum(gpxData[i].time) < windData[2].time
    /\ \E i \in Enriched : TimeNum(gpxData[i].time) = windData[2].time

\* C16: with exactly one sample, every point has that sample's wind speed
\* and direction.
C16_SingleSample ==
    Len(windData) = 1 => \A i \in Enriched : HasWindOf(i, 1)

\* One sample that is not the default, and an enriched point at another
\* time than the sample's.
C16_Witness ==
    /\ Len(windData) = 1
    /\ windData[1].wind_speed # 10 * 1000
    /\ \E i \in Enriched : TimeNum(gpxData[i].time) # windData[1].time

\* The wind direction of point i less its bearing, in degrees.
WindOffBearing(i) == Val(gpxData[i].wind_direction) - Val(gpxData[i].bearing)

\* C17: for a bearing of 0, 90, 180 or 270, wind_faced is wind_speed when
\* the wind direction equals the bearing, -wind_speed when it is opposite,
\* and 0 when it is 90 degrees off on either side.
C17_RelativeWind ==
    \A i \in Enriched :
        Val(gpxData[i].bearing) \in {0, 90, 180, 270}
        => /\ WindOffBearing(i) = 0
                => gpxData[i].wind_faced = Some(Val(gpxData[i].wind_speed))
           /\ WindOffBearing(i) \in {180, 0 - 180}
                => gpxData[i].wind_faced = Some(0 - Val(gpxData[i].wind_speed))
           /\ WindOffBearing(i) \in {90, 0 - 90, 270, 0 - 270}
                => gpxData[i].wind_faced = Some(0)

\* A headwind at one point, and at a point heading west a wind from the
\* east, whose direction less the bearing is negative.
C17_Witness ==
    /\ \E i \in Enriched : WindOffBearing(i) = 0 /\ Val(gpxData[i].wind_speed) > 0
    /\ \E i \in Enriched : Val(gpxData[i].bearing) = 270 /\ WindOffBearing(i) = 0 - 180

\* The kinematics pass has run on the track.
Derived == gpxData # <<>> /\ ~IsNull(gpxData[1].speed_kmh)

\* From point i - 1 to point i: the minutes and the decimetres.
MinutesTo(i) == TimeNum(gpxData[i].time) - TimeNum(gpxData[i - 1].time)
DistanceTo(i) ==
    haversineDistance(gpxData[i - 1].lat, gpxData[i - 1].lon, gpxData[i].lat, gpxData[i].lon)

\* C18: when the speed implied by points i - 1 and i, dt > 0, is above
\* 100 km/h and point i - 1 has a speed, 0 included, point i has the speed
\* of point i - 1.
C18_TooFastCarriesPrevious ==
    Derived
    => \A i \in 2..Len(gpxData) :
        (/\ MinutesTo(i) > 0
         /\ DistanceTo(i) * 6 > 100 * 1000 * MinutesTo(i)
         /\ ~IsNull(gpxData[i - 1].speed_kmh))
        => gpxData[i].speed_kmh = gpxData[i - 1].speed_kmh

\* C19: when points i - 1 and i have dt <= 0, point i has the speed of
\* point i - 1 and its cumulative distance is that of point i - 1 plus the
\* distance between the two.
C19_ClockAnomalyCarriesSpeed ==
    Derived
    => \A i \in 2..Len(gpxData) :
        MinutesTo(i) <= 0
        => /\ gpxData[i].speed_kmh = gpxData[i - 1].speed_kmh
           /\ Val(gpxData[i].distance_km) = Val(gpxData[i - 1].distance_km) + DistanceTo(i)

\* Two points of equal time a kilometre apart, the earlier one moving.
C19_Witness ==
    /\ Derived
    /\ \E i \in 2..Len(gpxData) :
        /\ MinutesTo(i) = 0
        /\ DistanceTo(i) > 10000
        /\ Val(gpxData[i - 1].speed_kmh) > 0

\* C20: after the kinematics pass the first point has distance 0, speed 0
\* and bearing 0, and the cumulative distance never decreases along the
\* track.
C20_CumulativeDistance ==
    Derived
    => /\ gpxData[1].distance_km = Some(0)
       /\ gpxData[1].speed_kmh = Some(0)
       /\ gpxData[1].bearing = Some(0)
       /\ \A i \in 2..Len(gpxData) :
            Val(gpxData[i].distance_km) >= Val(gpxData[i - 1].distance_km)

\* A track of three points after the pass: two kilometres out and one back.
C20_Witness ==
    /\ Derived
    /\ Len(gpxData) = 3
    /\ DistanceTo(2) > DistanceTo(3)
    /\ DistanceTo(3) > 0

\* C21: a kinematics pass over a track that a pass has already enriched
\* leaves every point as it was: any step from an enriched track keeps
\* gpxData.
C21_SecondPassChangesNothing ==
    [][Derived => gpxData' = gpxData]_vars

\* An enriched track of three points that moves, turns and moves on, on
\* which the pass can run again.
C21_Witness ==
    /\ Derived
    /\ Len(gpxData) = 3
    /\ Val(gpxData[2].distance_km) > 0
    /\ Val(gpxData[3].distance_km) > Val(gpxData[2].distance_km)
    /\ gpxData[3].bearing # gpxData[2].bearing
    /\ ENABLED KinematicsReapplied

\* The initial bearing from point i - 1 to point i, in [0, 360): the
\* azimuth of atan2, plus a turn when it is negative.
InitialBearingTo(i) ==
    LET azimuth == GeodesyEntry(gpxData[i - 1].lat, gpxData[i - 1].lon,
                                gpxData[i].lat, gpxData[i].lon)[6]
    IN IF azimuth < 0 THEN azimuth + 360 ELSE azimuth

\* C22: a point at most 1 m from the previous point has the previous
\* point's bearing; any other point has the initial bearing from the
\* previous point to it.
C22_BearingThreshold ==
    Derived
    => \A i \in 2..Len(gpxData) :
        IF DistanceTo(i) <= 10
        THEN gpxData[i].bearing = gpxData[i - 1].bearing
        ELSE gpxData[i].bearing = Some(InitialBearingTo(i))

\* After a move to the south-west, a point half a metre to the north of
\* the previous one.
C22_Witness ==
    /\ Derived
    /\ \E i \in 3..Len(gpxData) :
        /\ DistanceTo(i) > 0
        /\ DistanceTo(i) <= 10
        /\ gpxData[i].lat > gpxData[i - 1].lat
        /\ Val(gpxData[i - 1].bearing) > 180

\* C24: every bearing that calculateBearing returns is in [0, 360), for
\* the moves of the tracks and for every whole azimuth in (-180, 180].
C24_BearingRange ==
    /\ Derived => \A i \in 1..Len(gpxData) :
                    Val(gpxData[i].bearing) >= 0 /\ Val(gpxData[i].bearing) < 360
    /\ \A azimuth \in (0 - 179)..180 :
        NormalizeBearing(azimuth) >= 0 /\ NormalizeBearing(azimuth) < 360

\* A move whose azimuth is negative has been given its bearing.
C24_Witness ==
    /\ Derived
    /\ \E i \in 2..Len(gpxData) :
        /\ DistanceTo(i) > 10
        /\ GeodesyEntry(gpxData[i - 1].lat, gpxData[i - 1].lon,
                        gpxData[i].lat, gpxData[i].lon)[6] < 0

\* The speed implied by points i - 1 and i is above 100 km/h.
TooFast(i) == MinutesTo(i) > 0 /\ DistanceTo(i) * 6 > 100 * 1000 * MinutesTo(i)

\* C27: after the kinematics pass every speed is between 0 and 100 km/h.
C27_SpeedRange ==
    Derived
    => \A i \in 1..Len(gpxData) :
        Val(gpxData[i].speed_kmh) >= 0 /\ Val(gpxData[i].speed_kmh) <= 100 * 1000

\* A track with a step that is too fast after a point that was moving.
C27_Witness ==
    /\ Derived
    /\ Len(gpxData) = 3
    /\ Val(gpxData[2].speed_kmh) > 0
    /\ TooFast(3)

AllEnriched == gpxData # <<>> /\ Enriched = 1..Len(gpxData)

\* m is the largest of 0 and the numbers of S.
IsLargestWithZero(m, S) == m \in (S \cup {0}) /\ \A x \in (S \cup {0}) : m >= x

\* C23: for an enriched track calculateRouteStatistics gives
\* maxHeadwind = max(0, max wind_faced), maxTailwind = max(0, -min
\* wind_faced), headwindPercentage = 100 * (points with wind_faced >= 0) /
\* (points), in whole percent, within [0, 100], and avgSpeed = 0 when no
\* point has a positive speed.
C23_RouteStatistics ==
    AllEnriched
    => LET stats == calculateRouteStatistics(gpxData)
           n == Len(gpxData)
           faced == { Val(gpxData[i].wind_faced) : i \in 1..n }
           into == Cardinality({ i \in 1..n : Val(gpxData[i].wind_faced) >= 0 })
       IN /\ IsLargestWithZero(stats.maxHeadwind, faced)
          /\ IsLargestWithZero(stats.maxTailwind, { 0 - w : w \in faced })
          /\ stats.headwindPercentage * n <= 100 * into
          /\ 100 * into < (stats.headwindPercentage + 1) * n
          /\ stats.headwindPercentage >= 0 /\ stats.headwindPercentage <= 100
          /\ (\A i \in 1..n : Val(gpxData[i].speed_kmh) <= 0) => stats.avgSpeed = 0

\* An enriched track of two points at rest, one in a headwind and one in a
\* tailwind.
C23_Witness ==
    /\ AllEnriched
    /\ \A i \in 1..Len(gpxData) : Val(gpxData[i].speed_kmh) = 0
    /\ \E i \in 1..Len(gpxData) : Val(gpxData[i].wind_faced) < 0
    /\ \E i \in 1..Len(gpxData) : Val(gpxData[i].wind_faced) > 0

\* C26: the relative angle that calculateRelativeWind computes for a point
\* is in (-180, 180].
C26_RelativeAngleRange ==
    \A i \in Enriched :
        LET relativeAngle == RelativeAngle(Val(gpxData[i].wind_direction), Val(gpxData[i].bearing))
        IN relativeAngle > 0 - 180 /\ relativeAngle <= 180

\* C25: with every request settling, a sampling run finishes; every grid
\* step moves the grid time on by 30 minutes; and when a request fails the
\* run is at once at its next request or over.  (Runs of more than
\* MaxSteps grid steps are not followed to their end.)
C25_RunTerminates ==
    /\ \A r \in Slots :
        (run[r].pc = "loadingDelay" /\ GridSteps(r) <= MaxSteps) ~> (run[r].pc = "returned")
    /\ [][\A r \in Slots :
            (Sampling(r) /\ run'[r].currentStep = run[r].currentStep + 1)
            => run'[r].currentTime = run[r].currentTime + 30]_vars
    /\ [][\A r \in Slots :
            (/\ run[r].pc = "request"
             /\ Len(run'[r].failed) = Len(run[r].failed) + 1
             /\ run'[r].failed[Len(run'[r].failed)])
            => run'[r].pc \in {"request", "returned"}]_vars

\* A run of three grid steps is over, its first and its last request
\* having failed.
C25_Witness ==
    \E r \in Slots :
        /\ run[r].pc = "returned"
        /\ run[r].outcome = "results"
        /\ Len(run[r].failed) = 3
        /\ run[r].failed[1]
        /\ run[r].failed[3]
        /\ run[r].currentTime > run[r].endTime

\* C30: when analyze() fails in an invocation, the label reads
\* 'Analysis failed' once the invocation is over.
C30_AnalysisFailedLabel ==
    [][\A r \in Slots :
        (Alive(r) /\ run'[r].pc = "returned" /\ run'[r].outcome = "analysisError")
        => label' = "analysisFailed"]_vars

\* C29: after a pointerleave no hover marker is on the map until the next
\* pointermove, and at no moment is there more than one hover marker.
C29_NoMarkerAfterLeave ==
    /\ hover.pointer = "leave" => hover.onMap = 0
    /\ hover.onMap <= 1

====
